---------------------------- MODULE Spec2Model ----------------------------
(***************************************************************************)
(* The CRUD request handlers of initSampleRoutes, the MongoService store   *)
(* gateway and the EmailService notification gateway.                      *)
(*                                                                         *)
(* A JavaScript object is a function from the names of the fields it has   *)
(* to their values, so "field absent" is "name not in DOMAIN".  A document *)
(* of the collection is such an object with an _id field; the collection   *)
(* is the set of its documents.                                            *)
(***************************************************************************)
EXTENDS Integers, Sequences, FiniteSets, TLC

\* Bounds of the model.
MaxOid == 3        \* Spec: the driver generates Oid(1) .. Oid(MaxOid)
MaxClock == 1      \* the clock reads 0 .. MaxClock
MaxCreated == 2    \* SpecCreate: documents created
MaxSeedOid == 6    \* SpecSeed: the driver generates Oid(1) .. Oid(MaxSeedOid)
MaxAnswers == 2    \* SpecFormat: items of an answers array
MaxCalls == 2      \* SpecAsync: requests in flight together
MaxInserted == 1   \* SpecAsync: documents inserted
MaxUpdated == 1    \* SpecUpdate: documents created

VARIABLES
    collection,    \* MongoService.collection is bound (connect() succeeded)
    store,         \* the documents of the 'users' collection
    nextOid,       \* number of ObjectIds generated so far
    now,           \* what new Date() reads
    isConfigured,  \* EmailService.isConfigured
    transporter,   \* EmailService.transporter: "none", "smtp" or "test"
    provisioning,  \* createTestTransporter() is awaiting createTestAccount()
    last,          \* the last request handled and everything it produced
    calls          \* the requests whose handlers run step by step

vars == <<collection, store, nextOid, now, isConfigured, transporter,
          provisioning, last, calls>>

-----------------------------------------------------------------------------
(* JavaScript values *)

Num(v) == [t |-> "number", v |-> v]
\* The string whose characters are the decimal digits of v.
Str(v) == [t |-> "string", v |-> v]
NaN == [t |-> "NaN", v |-> 0]

\* if (name), if (email): a string is truthy unless it is empty.
TruthyText(s) == s # ""

\* (if (age !== undefined): every age that is given is stored)
TruthyAgeDefined(a) == TRUE

\* if (age): 0 and NaN are falsy, a non-empty string (also "0") is truthy.
TruthyAge(a) == IF a.t = "number" THEN a.v # 0 ELSE a.t = "string"

\* parseInt(age): a number stays, a string of digits becomes its number.
ParseInt(a) == IF a.t = "NaN" THEN NaN ELSE Num(a.v)

Has(o, f) == f \in DOMAIN o

(* Identifiers.  An _id is an ObjectId (generated by the driver) or a      *)
(* string (JSON can carry no other).  A string is written as a number h:   *)
(* h > 0 is the 24 hex digits that ObjectId h prints as, h = 0 is a string *)
(* that is not 24 hex digits.                                              *)
Oid(h) == [t |-> "oid", h |-> h]
StrId(h) == [t |-> "str", h |-> h]

\* insertedId.toString()
IdToString(id) == id.h

\* new ObjectId(id) throws unless id is 24 hex digits.
ObjectIdThrows(s) == s = 0
\* (the filter built from the path string itself)
RawId(s) == StrId(s)
ObjectId(s) == Oid(s)

-----------------------------------------------------------------------------
(* The driver's collection operations, on a set s of documents *)

\* collection.findOne({_id}): the documents matching (none or one).
FindOne(s, id) == {d \in s : d._id = id}

\* collection.insertOne(doc): the driver adds _id when the document has
\* none; the unique index on _id rejects a duplicate.
InsertOne(s, doc, gen) ==
    LET withId == IF Has(doc, "_id") THEN doc ELSE ("_id" :> Oid(gen)) @@ doc
    IN  IF \E d \in s : d._id = withId._id
        THEN [ok |-> FALSE, store |-> s, insertedId |-> withId._id, used |-> 0]
        ELSE [ok |-> TRUE, store |-> s \cup {withId},
              insertedId |-> withId._id,
              used |-> IF Has(doc, "_id") THEN 0 ELSE 1]

\* collection.insertMany(docs), docs a sequence of documents without _id.
InsertMany(s, docs, gen) ==
    [ok |-> TRUE,
     store |-> s \cup {("_id" :> Oid(gen + i - 1)) @@ docs[i] : i \in 1..Len(docs)},
     insertedCount |-> Len(docs),
     used |-> Len(docs)]

\* collection.updateOne({_id}, {$set: set})
UpdateOne(s, id, set) ==
    [matchedCount |-> Cardinality(FindOne(s, id)),
     store |-> {IF d._id = id THEN set @@ d ELSE d : d \in s}]

\* collection.deleteOne({_id})
DeleteOne(s, id) ==
    [deletedCount |-> Cardinality(FindOne(s, id)),
     store |-> s \ FindOne(s, id)]

-----------------------------------------------------------------------------
(* formatAnswers.  The answers value of a body is an array of items, or a  *)
(* truthy value that is no array (k = "object"), or a falsy value          *)
(* (k = "null").  An item is null or an object with a label (a string, ""  *)
(* when empty or absent) and a value: a string (arr = FALSE, parts = <<s>>,*)
(* s = "" when empty or absent) or an array of strings (arr = TRUE).       *)

Greeting ==
    "Bonjour SCB Cameroun, J'ai rempli les questionnaires du simulateur et voici *Mes reponses au questionnaire* : <br /> <ul>"
SignOff == "<br /> </ul> J'aimerais en savoir plus s'il vous plait"

Scalar(s) == [arr |-> FALSE, parts |-> <<s>>]
Array(ps) == [arr |-> TRUE, parts |-> ps]
Pair(l, v) == [isNull |-> FALSE, label |-> l, value |-> v]
NullItem == [isNull |-> TRUE, label |-> "", value |-> Scalar("")]
AnswersArray(items) == [k |-> "array", items |-> items]
AnswersObject == [k |-> "object", items |-> <<>>]
AnswersNull == [k |-> "null", items |-> <<>>]

\* (join with the separator of Array.prototype.join's default, ",")
RECURSIVE JoinDefault(_)
JoinDefault(ps) ==
    IF ps = <<>> THEN ""
    ELSE IF Len(ps) = 1 THEN ps[1]
    ELSE ps[1] \o "," \o JoinDefault(Tail(ps))

\* value.join(", ")
RECURSIVE Join(_)
Join(ps) ==
    IF ps = <<>> THEN ""
    ELSE IF Len(ps) = 1 THEN ps[1]
    ELSE ps[1] \o ", " \o Join(Tail(ps))

\* !value: an array is truthy, a string is truthy unless empty.
TruthyValue(v) == v.arr \/ v.parts[1] # ""

ListLine(label, val) ==
    "<li> <span style=\"font-weight: bold\"> " \o label
        \o " </span>  :  <i> " \o val \o " </i> </li>  <br />"

\* The for-of loop over the items from position i on, message so far msg.
RECURSIVE FormatFrom(_, _, _)
FormatFrom(items, i, msg) ==
    IF i > Len(items) THEN [threw |-> FALSE, message |-> msg]
    ELSE IF items[i].isNull THEN [threw |-> TRUE, message |-> msg]
    ELSE IF ~TruthyText(items[i].label) \/ ~TruthyValue(items[i].value)
         THEN FormatFrom(items, i + 1, msg)
    ELSE LET v == items[i].value
             val == IF v.arr THEN Join(v.parts) ELSE v.parts[1]
         IN  FormatFrom(items, i + 1, msg \o ListLine(items[i].label, val))

formatAnswers(answers) ==
    IF answers.k # "array" THEN [threw |-> TRUE, message |-> Greeting]
    ELSE LET r == FormatFrom(answers.items, 1, Greeting)
         IN  IF r.threw THEN r ELSE [r EXCEPT !.message = @ \o SignOff]

\* req.body.answers || []
AnswersOrEmpty(body) ==
    IF Has(body, "answers") /\ body.answers.k # "null"
    THEN body.answers ELSE AnswersArray(<<>>)

-----------------------------------------------------------------------------
(* EmailService *)

isReady == isConfigured

\* generateEmailTemplate(type, data): the object literal evaluates all three
\* templates, and the custom one calls data.message.replace, so it throws
\* when data has no message; an unknown type gets the custom template.
generateEmailTemplate(type, data) ==
    IF ~Has(data, "message") THEN [threw |-> TRUE, kind |-> "", subject |-> ""]
    ELSE IF type = "welcome"
         THEN [threw |-> FALSE, kind |-> "welcome", subject |-> "Welcome"]
    ELSE IF type = "notification"
         THEN [threw |-> FALSE, kind |-> "notification", subject |-> "Notification"]
    ELSE [threw |-> FALSE, kind |-> "custom",
          subject |-> IF Has(data, "subject") /\ TruthyText(data.subject)
                      THEN data.subject ELSE "Message from Our Service"]

\* (sendEmail without its isConfigured check: sendMail is called on the
\* unbound transporter, and the TypeError is caught)
sendEmailUnchecked(to, type, data, provider) ==
    IF ~isConfigured \/ generateEmailTemplate(type, data).threw
    THEN [threw |-> FALSE, mails |-> <<>>,
          result |-> [success |-> FALSE, error |-> "TypeError"]]
    ELSE [threw |-> FALSE,
          mails |-> <<[to |-> to,
                       subject |-> generateEmailTemplate(type, data).subject]>>,
          result |-> IF provider = "reject"
                     THEN [success |-> FALSE, error |-> "provider"]
                     ELSE [success |-> TRUE, messageId |-> "id"]]

\* sendEmail(to, type, data); provider is what transporter.sendMail does:
\* "ok" resolves, "reject" rejects.  mails are the sendMail calls made.
sendEmail(to, type, data, provider) ==
    IF ~isConfigured
    THEN [threw |-> FALSE, mails |-> <<>>,
          result |-> [success |-> FALSE, error |-> "Email service not configured"]]
    ELSE LET template == generateEmailTemplate(type, data)
         IN  IF template.threw
             THEN [threw |-> FALSE, mails |-> <<>>,
                   result |-> [success |-> FALSE, error |-> "TypeError"]]
             ELSE IF provider = "reject"
             THEN [threw |-> FALSE,
                   mails |-> <<[to |-> to, subject |-> template.subject]>>,
                   result |-> [success |-> FALSE, error |-> "provider"]]
             ELSE [threw |-> FALSE,
                   mails |-> <<[to |-> to, subject |-> template.subject]>>,
                   result |-> [success |-> TRUE, messageId |-> "id"]]

-----------------------------------------------------------------------------
(* The request handlers.  A handler's try block yields an outcome: whether *)
(* it threw, the responses it sent (res.json calls, in order), the         *)
(* collection and the ObjectId counter it leaves, and the mails it handed  *)
(* to the transport.  dbFail says that the driver's operation rejects      *)
(* (connection lost, server error).                                        *)

Response(status, body) == [status |-> status, body |-> body]

Outcome(threw, responses, s, oid, mails) ==
    [threw |-> threw, responses |-> responses, store |-> s, nextOid |-> oid,
     mails |-> mails]

\* An error thrown before anything was written or sent.
Thrown == Outcome(TRUE, <<>>, store, nextOid, <<>>)

NotFound == Response(404, [success |-> FALSE, message |-> "Data not found"])

\* catch (error) { ...; res.status(500).json({success: false, message}) }
TryCatch(out, message) ==
    IF out.threw
    THEN [out EXCEPT !.threw = FALSE,
                     !.responses = Append(@, Response(500,
                         [success |-> FALSE, message |-> message]))]
    ELSE out

\* MongoService.getCollection() throws 'Database not connected'.
getCollectionThrows == ~collection

\* GET /api/data
GetAllTry(dbFail) ==
    IF getCollectionThrows \/ dbFail THEN Thrown
    ELSE Outcome(FALSE, <<Response(200, [success |-> TRUE, data |-> store])>>,
                 store, nextOid, <<>>)

GetAll(dbFail) == TryCatch(GetAllTry(dbFail), "Failed to fetch data")

\* (GET /api/data/:id without the return in its not-found branch)
GetByIdTryNoReturn(id, dbFail) ==
    IF getCollectionThrows \/ ObjectIdThrows(id) \/ dbFail THEN Thrown
    ELSE LET data == FindOne(store, ObjectId(id))
             found == Response(200, [success |-> TRUE, data |-> data])
         IN  Outcome(FALSE,
                     IF data = {} THEN <<NotFound, found>> ELSE <<found>>,
                     store, nextOid, <<>>)

\* GET /api/data/:id
GetByIdTry(id, dbFail) ==
    IF getCollectionThrows \/ ObjectIdThrows(id) \/ dbFail THEN Thrown
    ELSE LET data == FindOne(store, ObjectId(id))
         IN  IF data = {}
             THEN Outcome(FALSE, <<NotFound>>, store, nextOid, <<>>)
             ELSE Outcome(FALSE,
                     <<Response(200, [success |-> TRUE,
                                      data |-> CHOOSE d \in data : TRUE])>>,
                     store, nextOid, <<>>)

GetById(id, dbFail) == TryCatch(GetByIdTry(id, dbFail), "Failed to fetch data")

\* const newData = { ...req.body, createdAt: new Date() }
NewData(body) == ("createdAt" :> now) @@ body

RecipientEmail == "RECIPIENT_EMAIL"

\* emailService.isReady() && await emailService.sendEmail(..., 'custom', mailContent)
Notify(message, provider) ==
    IF isReady
    THEN sendEmail(RecipientEmail, "custom",
                   [subject |-> "Data Retrieved From Simulator",
                    message |-> message], provider)
    ELSE [threw |-> FALSE, mails |-> <<>>, result |-> [success |-> FALSE]]

\* POST /api/data
CreateTry(body, dbFail, provider) ==
    IF getCollectionThrows \/ dbFail THEN Thrown
    ELSE LET result == InsertOne(store, NewData(body), nextOid + 1)
             oid == nextOid + result.used
         IN  IF ~result.ok THEN Thrown
             ELSE LET fmt == formatAnswers(AnswersOrEmpty(body))
                  IN  IF fmt.threw
                      THEN Outcome(TRUE, <<>>, result.store, oid, <<>>)
                      ELSE LET sent == Notify(fmt.message, provider)
                           IN  IF sent.threw
                               THEN Outcome(TRUE, <<>>, result.store, oid, sent.mails)
                               ELSE Outcome(FALSE,
                                       <<Response(201,
                                           [success |-> TRUE,
                                            data |-> [id |-> IdToString(result.insertedId)],
                                            message |-> "Data created successfully"])>>,
                                       result.store, oid, sent.mails)

Create(body, dbFail, provider) ==
    TryCatch(CreateTry(body, dbFail, provider), "Failed to create data")

\* (updateData with parseInt(age) stored whether or not age is given)
UpdateDataAgeAlways(body) ==
    LET n == IF Has(body, "name") /\ TruthyText(body.name)
             THEN "name" :> body.name ELSE <<>>
        e == IF Has(body, "email") /\ TruthyText(body.email)
             THEN "email" :> body.email ELSE <<>>
        a == "age" :> (IF Has(body, "age") THEN ParseInt(body.age) ELSE NaN)
    IN  n @@ e @@ a

\* if (name) updateData.name = name; if (email) ...; if (age) ... parseInt(age)
UpdateData(body) ==
    LET n == IF Has(body, "name") /\ TruthyText(body.name)
             THEN "name" :> body.name ELSE <<>>
        e == IF Has(body, "email") /\ TruthyText(body.email)
             THEN "email" :> body.email ELSE <<>>
        a == IF Has(body, "age") /\ TruthyAge(body.age)
             THEN "age" :> ParseInt(body.age) ELSE <<>>
    IN  n @@ e @@ a

\* (PUT /api/data/:id without the matchedCount check)
UpdateTryNoCheck(id, body, dbFail) ==
    IF getCollectionThrows \/ ObjectIdThrows(id) \/ dbFail THEN Thrown
    ELSE Outcome(FALSE,
             <<Response(200, [success |-> TRUE,
                              message |-> "Data updated successfully"])>>,
             UpdateOne(store, ObjectId(id), UpdateData(body)).store,
             nextOid, <<>>)

\* PUT /api/data/:id
UpdateTry(id, body, dbFail) ==
    IF getCollectionThrows \/ ObjectIdThrows(id) \/ dbFail THEN Thrown
    ELSE LET result == UpdateOne(store, ObjectId(id), UpdateData(body))
         IN  IF result.matchedCount = 0
             THEN Outcome(FALSE, <<NotFound>>, result.store, nextOid, <<>>)
             ELSE Outcome(FALSE,
                     <<Response(200, [success |-> TRUE,
                                      message |-> "Data updated successfully"])>>,
                     result.store, nextOid, <<>>)

Update(id, body, dbFail) ==
    TryCatch(UpdateTry(id, body, dbFail), "Failed to update data")

\* (DELETE /api/data/:id without the deletedCount check)
DeleteTryNoCheck(id, dbFail) ==
    IF getCollectionThrows \/ ObjectIdThrows(id) \/ dbFail THEN Thrown
    ELSE Outcome(FALSE,
             <<Response(200, [success |-> TRUE,
                              message |-> "Data deleted successfully"])>>,
             DeleteOne(store, ObjectId(id)).store, nextOid, <<>>)

\* DELETE /api/data/:id
DeleteTry(id, dbFail) ==
    IF getCollectionThrows \/ ObjectIdThrows(id) \/ dbFail THEN Thrown
    ELSE LET result == DeleteOne(store, ObjectId(id))
         IN  IF result.deletedCount = 0
             THEN Outcome(FALSE, <<NotFound>>, result.store, nextOid, <<>>)
             ELSE Outcome(FALSE,
                     <<Response(200, [success |-> TRUE,
                                      message |-> "Data deleted successfully"])>>,
                     result.store, nextOid, <<>>)

\* (DELETE /api/data/:id with new ObjectId(id) ahead of the try block)
DeleteIdOutsideTry(id, dbFail) ==
    IF ObjectIdThrows(id) THEN Thrown
    ELSE TryCatch(DeleteTry(id, dbFail), "Failed to delete data")

Delete(id, dbFail) == TryCatch(DeleteTry(id, dbFail), "Failed to delete data")

\* The three fixed documents of POST /api/seed.
sampleData ==
    << [name |-> "John Doe", email |-> "john@example.com", age |-> Num(30),
        createdAt |-> now],
       [name |-> "Jane Smith", email |-> "jane@example.com", age |-> Num(25),
        createdAt |-> now],
       [name |-> "Bob Johnson", email |-> "bob@example.com", age |-> Num(35),
        createdAt |-> now] >>

\* (POST /api/seed emptying the collection before it inserts)
SeedTryClearing(dbFail) ==
    IF getCollectionThrows \/ dbFail THEN Thrown
    ELSE LET result == InsertMany({}, sampleData, nextOid + 1)
         IN  Outcome(FALSE,
                 <<Response(201, [success |-> TRUE,
                                  data |-> [insertedCount |-> result.insertedCount],
                                  message |-> "Sample data seeded successfully"])>>,
                 result.store, nextOid + result.used, <<>>)

\* POST /api/seed
SeedTry(dbFail) ==
    IF getCollectionThrows \/ dbFail THEN Thrown
    ELSE LET result == InsertMany(store, sampleData, nextOid + 1)
         IN  Outcome(FALSE,
                 <<Response(201, [success |-> TRUE,
                                  data |-> [insertedCount |-> result.insertedCount],
                                  message |-> "Sample data seeded successfully"])>>,
                 result.store, nextOid + result.used, <<>>)

Seed(dbFail) == TryCatch(SeedTry(dbFail), "Failed to seed data")

-----------------------------------------------------------------------------
(* Requests *)

Bool == {FALSE, TRUE}
Providers == {"ok", "reject"}

\* Path ids: 0 is a string that is no ObjectId, h > 0 prints ObjectId h.
PathIds(max) == 0..max

PlainX == [name |-> "X", email |-> "x@example.com", age |-> Num(7)]
PlainY == [name |-> "Y", email |-> "x@example.com", age |-> Num(7)]

\* The example of the specification: one plain pair, one pair without
\* label, one pair with an array value.
GoodAnswers ==
    AnswersArray(<< Pair("A", Scalar("b")), Pair("", Scalar("c")),
                    Pair("D", Array(<<"e", "f">>)) >>)

AnswersInputs ==
    {GoodAnswers, AnswersArray(<<Pair("A", Scalar("b")), NullItem>>),
     AnswersObject, AnswersNull}

\* Items with a label and a value, either of which may be empty or absent.
PairItems ==
    {Pair(l, v) : l \in {"", "A"},
                  v \in {Scalar(""), Scalar("b"), Array(<<"e", "f">>), Array(<<>>)}}

RECURSIVE SeqsUpTo(_, _)
SeqsUpTo(S, n) ==
    IF n = 0 THEN {<<>>}
    ELSE LET shorter == SeqsUpTo(S, n - 1)
         IN  shorter \cup {Append(q, x) : q \in shorter, x \in S}

\* Arguments of formatAnswers: arrays of pairs, and the values it throws on.
FormatInputs ==
    {AnswersArray(items) : items \in SeqsUpTo(PairItems, MaxAnswers)}
    \cup AnswersInputs

\* Bodies of POST /api/data with the record fields alone.
PlainBodies == {PlainX, PlainY}

\* Bodies that also carry an _id, a createdAt or an answers field.
RichBodies ==
    PlainBodies
    \cup {("_id" :> StrId(h)) @@ PlainX : h \in {0, 1}}
    \cup {("createdAt" :> (0 - 1)) @@ PlainX}
    \cup {("answers" :> a) @@ PlainX : a \in AnswersInputs}

\* Bodies of PUT /api/data/:id in which at most the name is truthy.
NameBodies ==
    {<<>>, [name |-> "Y"], [name |-> ""],
     [name |-> "Y", email |-> "", age |-> Num(0)]}

\* The field f absent, or given with one of these values.
Field(f, values) == {<<>>} \cup {f :> v : v \in values}

\* Bodies of PUT /api/data/:id with each field absent, falsy or truthy; the
\* age is a number or a string of digits.
UpdateBodies ==
    {n @@ e @@ a : n \in Field("name", {"", "Y"}),
                   e \in Field("email", {"", "y@example.com"}),
                   a \in Field("age", {Num(0), Str(0), Num(9)})}

\* What the last request was and what its handler produced; turn tells a
\* request from the one before it.
Exchange(op, id, body, dbFail, out) ==
    [turn |-> 1 - last.turn,
     op |-> op, id |-> id, body |-> body, dbFail |-> dbFail,
     responses |-> out.responses, escaped |-> out.threw, mails |-> out.mails,
     result |-> [success |-> FALSE]]

NoBody == <<>>

Handled(op, id, body, dbFail, out) ==
    /\ store' = out.store
    /\ nextOid' = out.nextOid
    /\ last' = Exchange(op, id, body, dbFail, out)
    /\ UNCHANGED <<calls, collection, now, isConfigured, transporter,
                   provisioning>>

-----------------------------------------------------------------------------
(* Actions *)

\* new MongoService(...), new EmailService(): setupTransporter() binds the
\* SMTP transport when host, user and pass are set, and otherwise starts
\* createTestTransporter() without awaiting it.
Init ==
    /\ collection = FALSE
    /\ store = {}
    /\ nextOid = 0
    /\ now = 0
    /\ \E configured \in Bool :
          /\ isConfigured = configured
          /\ transporter = IF configured THEN "smtp" ELSE "none"
          /\ provisioning = ~configured
    /\ last = [turn |-> 0, op |-> "none", id |-> 0, body |-> NoBody,
               dbFail |-> FALSE, responses |-> <<>>, escaped |-> FALSE,
               mails |-> <<>>, result |-> [success |-> FALSE]]
    /\ calls = <<>>

\* MongoService.connect() succeeds.
Connect ==
    /\ ~collection
    /\ collection' = TRUE
    /\ UNCHANGED <<calls, store, nextOid, now, isConfigured, transporter,
                   provisioning, last>>

\* (createTestTransporter binding the transport without setting isConfigured)
TestAccountCreatedNoFlag ==
    /\ provisioning
    /\ transporter' = "test"
    /\ provisioning' = FALSE
    /\ UNCHANGED <<calls, collection, store, nextOid, now, isConfigured, last>>

\* createTestAccount() resolves: the test transport is bound.
TestAccountCreated ==
    /\ provisioning
    /\ transporter' = "test"
    /\ isConfigured' = TRUE
    /\ provisioning' = FALSE
    /\ UNCHANGED <<calls, collection, store, nextOid, now, last>>

\* createTestAccount() rejects: logged, nothing bound.
TestAccountFailed ==
    /\ provisioning
    /\ provisioning' = FALSE
    /\ UNCHANGED <<calls, collection, store, nextOid, now, isConfigured,
                   transporter, last>>

Tick ==
    /\ now < MaxClock
    /\ now' = now + 1
    /\ UNCHANGED <<calls, collection, store, nextOid, isConfigured, transporter,
                   provisioning, last>>

\* The driver's operation is let fail on one request of each kind.
FailsOn(dbFail, id, body) == dbFail => (id = 1 /\ body \in {NoBody, PlainX, [name |-> "Y"]})

HandleGetAll ==
    \E dbFail \in Bool : Handled("list", 0, NoBody, dbFail, GetAll(dbFail))

HandleGetById(ids) ==
    \E id \in ids, dbFail \in Bool :
        /\ FailsOn(dbFail, id, NoBody)
        /\ Handled("get", id, NoBody, dbFail, GetById(id, dbFail))

HandleCreate(bodies, max) ==
    \E body \in bodies, dbFail \in Bool, provider \in Providers :
        /\ nextOid < max
        /\ FailsOn(dbFail, 1, body)
        /\ Handled("create", 0, body, dbFail, Create(body, dbFail, provider))

HandleUpdate(ids, bodies) ==
    \E id \in ids, body \in bodies, dbFail \in Bool :
        /\ FailsOn(dbFail, id, body)
        /\ Handled("update", id, body, dbFail, Update(id, body, dbFail))

HandleDelete(ids) ==
    \E id \in ids, dbFail \in Bool :
        /\ FailsOn(dbFail, id, NoBody)
        /\ Handled("delete", id, NoBody, dbFail, Delete(id, dbFail))

HandleSeed(max) ==
    \E dbFail \in Bool :
        /\ nextOid + Len(sampleData) <= max
        /\ Handled("seed", 0, NoBody, dbFail, Seed(dbFail))

\* A direct call of emailService.sendEmail(to, type, data).
CallSendEmail ==
    \E type \in {"welcome", "custom", "other"},
       data \in {[message |-> "hello"], [name |-> "X"]},
       provider \in Providers :
        LET r == sendEmail("to@example.com", type, data, provider)
        IN  /\ last' = [turn |-> 1 - last.turn,
                        op |-> "sendEmail", id |-> 0, body |-> data,
                        dbFail |-> FALSE, responses |-> <<>>,
                        escaped |-> r.threw, mails |-> r.mails,
                        result |-> r.result]
            /\ UNCHANGED <<calls, collection, store, nextOid, now, isConfigured,
                           transporter, provisioning>>

\* A direct call of formatAnswers(answers).
CallFormatAnswers ==
    \E answers \in FormatInputs :
        /\ last' = [turn |-> 1 - last.turn,
                    op |-> "formatAnswers", id |-> 0, body |-> answers,
                    dbFail |-> FALSE, responses |-> <<>>,
                    escaped |-> formatAnswers(answers).threw, mails |-> <<>>,
                    result |-> formatAnswers(answers)]
        /\ UNCHANGED <<calls, collection, store, nextOid, now, isConfigured,
                       transporter, provisioning>>

-----------------------------------------------------------------------------
(* The handlers step by step.  A handler runs uninterrupted up to an await *)
(* and goes on when the awaited promise has settled; the awaits are the    *)
(* driver's operation and, in the create handler, sendEmail, which awaits  *)
(* transporter.sendMail.  calls holds the requests in the order received,  *)
(* each with the place its handler has reached: "store" (awaiting the      *)
(* driver), "resume" (the driver has answered), "mail" (awaiting           *)
(* sendMail), "done".  ok, n and data are what the driver answered; at is  *)
(* the position of the call's operation among those of calls that the     *)
(* store applied;                                                          *)
(* serial and serialStore are what the handler of a request on an id, run  *)
(* in one piece at that instant, answers and leaves.                       *)

FailureMessage(op) ==
    CASE op = "get" -> "Failed to fetch data"
      [] op = "create" -> "Failed to create data"
      [] op = "update" -> "Failed to update data"
      [] op = "delete" -> "Failed to delete data"

Call(request, pc, arg, responses) ==
    [op |-> request.op, id |-> request.id, body |-> request.body,
     pc |-> pc, arg |-> arg, ok |-> TRUE, n |-> 0, data |-> {}, at |-> 0,
     responses |-> responses, mails |-> <<>>,
     serial |-> <<>>, serialStore |-> {}]

\* The requests received while others are in flight.
AsyncRequests ==
    {[op |-> "create", id |-> 0, body |-> PlainX]}
    \cup {[op |-> "update", id |-> 1, body |-> [name |-> n]] : n \in {"Y", "Z"}}
    \cup {[op |-> op, id |-> 1, body |-> NoBody] : op \in {"delete", "get"}}

\* What the handler hands to the driver: insertOne gives the document its
\* _id when it is called.
Argument(request) ==
    CASE request.op = "create" ->
            ("_id" :> Oid(nextOid + 1)) @@ NewData(request.body)
      [] request.op = "update" -> UpdateData(request.body)
      [] OTHER -> <<>>

\* The handler from its first line to its first await.
ReceiveRequest ==
    \E request \in AsyncRequests :
        /\ Len(calls) < MaxCalls
        /\ request.op = "create" => nextOid < MaxInserted
        /\ IF getCollectionThrows
              \/ (request.op # "create" /\ ObjectIdThrows(request.id))
           THEN /\ calls' = Append(calls,
                       Call(request, "done", <<>>,
                            <<Response(500, [success |-> FALSE,
                                  message |-> FailureMessage(request.op)])>>))
                /\ UNCHANGED nextOid
           ELSE /\ calls' = Append(calls,
                       Call(request, "store", Argument(request), <<>>))
                /\ nextOid' = IF request.op = "create"
                              THEN nextOid + 1 ELSE nextOid
        /\ UNCHANGED <<collection, store, now, isConfigured, transporter,
                       provisioning, last>>

\* The operation of call c, applied to the collection s.
Operation(c, s) ==
    CASE c.op = "create" ->
            [n |-> 1, data |-> {}, store |-> InsertOne(s, c.arg, 0).store]
      [] c.op = "update" ->
            [n |-> UpdateOne(s, ObjectId(c.id), c.arg).matchedCount,
             data |-> {},
             store |-> UpdateOne(s, ObjectId(c.id), c.arg).store]
      [] c.op = "delete" ->
            [n |-> DeleteOne(s, ObjectId(c.id)).deletedCount,
             data |-> {},
             store |-> DeleteOne(s, ObjectId(c.id)).store]
      [] c.op = "get" ->
            [n |-> Cardinality(FindOne(s, ObjectId(c.id))),
             data |-> FindOne(s, ObjectId(c.id)), store |-> s]

\* The handler of call c, a request on an id, run in one piece and its
\* operation succeeding.
InOnePiece(c) ==
    CASE c.op = "create" -> Outcome(FALSE, <<>>, {}, nextOid, <<>>)
      [] c.op = "update" -> Update(c.id, c.body, FALSE)
      [] c.op = "delete" -> Delete(c.id, FALSE)
      [] c.op = "get" -> GetById(c.id, FALSE)

Applied == Cardinality({i \in 1..Len(calls) : calls[i].at > 0})

\* The store applies the operation of call i and the driver's promise
\* resolves.
StoreApplies(i) ==
    /\ calls[i].pc = "store"
    /\ store' = Operation(calls[i], store).store
    /\ calls' = [calls EXCEPT ![i] =
                   [@ EXCEPT !.pc = "resume",
                             !.n = Operation(calls[i], store).n,
                             !.data = Operation(calls[i], store).data,
                             !.at = Applied + 1,
                             !.serial = InOnePiece(calls[i]).responses,
                             !.serialStore = InOnePiece(calls[i]).store]]
    /\ UNCHANGED <<collection, nextOid, now, isConfigured, transporter,
                   provisioning, last>>

\* The driver's promise rejects; nothing was applied.
StoreRejects(i) ==
    /\ calls[i].pc = "store"
    /\ calls' = [calls EXCEPT ![i] = [@ EXCEPT !.pc = "resume", !.ok = FALSE]]
    /\ UNCHANGED <<collection, store, nextOid, now, isConfigured, transporter,
                   provisioning, last>>

\* (the answer decided by looking the record up again, after the await)
AnswerLookingAgain(c) ==
    IF c.op \in {"update", "delete"} /\ FindOne(store, ObjectId(c.id)) = {}
    THEN <<NotFound>>
    ELSE <<Response(200, [success |-> TRUE,
               message |-> IF c.op = "update" THEN "Data updated successfully"
                           ELSE "Data deleted successfully"])>>

\* What the get, update and delete handlers answer from the driver's result.
Answer(c) ==
    IF c.n = 0 THEN <<NotFound>>
    ELSE IF c.op = "get"
    THEN <<Response(200, [success |-> TRUE, data |-> CHOOSE d \in c.data : TRUE])>>
    ELSE <<Response(200, [success |-> TRUE,
               message |-> IF c.op = "update" THEN "Data updated successfully"
                           ELSE "Data deleted successfully"])>>

Created(c) ==
    <<Response(201, [success |-> TRUE,
                     data |-> [id |-> IdToString(c.arg._id)],
                     message |-> "Data created successfully"])>>

Failed(c) ==
    <<Response(500, [success |-> FALSE, message |-> FailureMessage(c.op)])>>

\* The handler of call i from the driver's answer to its next await, or to
\* its end.  The create handler formats the answers and, the gateway being
\* ready, calls sendEmail, which runs up to its await of sendMail.
Resume(i) ==
    LET c == calls[i]
        fmt == formatAnswers(AnswersOrEmpty(c.body))
        mail == sendEmail(RecipientEmail, "custom",
                          [subject |-> "Data Retrieved From Simulator",
                           message |-> fmt.message], "ok")
    IN  /\ c.pc = "resume"
        /\ calls' = [calls EXCEPT ![i] =
              IF ~c.ok THEN [c EXCEPT !.pc = "done", !.responses = Failed(c)]
              ELSE IF c.op # "create"
              THEN [c EXCEPT !.pc = "done", !.responses = Answer(c)]
              ELSE IF fmt.threw
              THEN [c EXCEPT !.pc = "done", !.responses = Failed(c)]
              ELSE IF isReady /\ mail.mails # <<>>
              THEN [c EXCEPT !.pc = "mail", !.mails = mail.mails]
              ELSE [c EXCEPT !.pc = "done", !.responses = Created(c)]]
        /\ UNCHANGED <<collection, store, nextOid, now, isConfigured,
                       transporter, provisioning, last>>

\* sendMail settles, sendEmail returns its result (success or the caught
\* error) and the create handler answers.
MailSettles(i) ==
    \E provider \in Providers :
        /\ calls[i].pc = "mail"
        /\ calls' = [calls EXCEPT ![i] =
                       [@ EXCEPT !.pc = "done",
                                 !.responses = Created(calls[i])]]
        /\ UNCHANGED <<collection, store, nextOid, now, isConfigured,
                       transporter, provisioning, last>>

\* Every request received has been answered and its handler has returned:
\* the calls are forgotten.
Forget ==
    /\ calls # <<>>
    /\ \A i \in 1..Len(calls) : calls[i].pc = "done"
    /\ calls' = <<>>
    /\ UNCHANGED <<collection, store, nextOid, now, isConfigured, transporter,
                   provisioning, last>>

-----------------------------------------------------------------------------
(* Specifications *)

\* All handlers, within one instant and with the gateway as constructed.
Next ==
    \/ Connect
    \/ HandleGetAll
    \/ HandleGetById(PathIds(MaxOid))
    \/ HandleCreate(PlainBodies, MaxOid)
    \/ HandleUpdate(PathIds(MaxOid), NameBodies)
    \/ HandleDelete(PathIds(MaxOid))
    \/ HandleSeed(MaxOid)

Spec == Init /\ [][Next]_vars

\* Creation with any body, followed by reads and updates.
NextCreate ==
    \/ Connect
    \/ HandleCreate(RichBodies, MaxCreated)
    \/ HandleGetById(PathIds(MaxCreated))
    \/ HandleUpdate(PathIds(MaxCreated), {[name |-> "Y"]})

SpecCreate == Init /\ [][NextCreate]_vars

\* Seeding again and again, between creations and deletions.
NextSeed ==
    \/ Connect
    \/ Tick
    \/ HandleCreate({PlainX}, MaxSeedOid)
    \/ HandleDelete(PathIds(MaxSeedOid))
    \/ HandleSeed(MaxSeedOid)

SpecSeed == Init /\ [][NextSeed]_vars

\* The gateway being provisioned while mails are sent and records created.
NextMail ==
    \/ Connect
    \/ TestAccountCreated
    \/ TestAccountFailed
    \/ CallSendEmail
    \/ HandleCreate(RichBodies, MaxCreated)

SpecMail == Init /\ [][NextMail]_vars

\* The formatter alone, on every argument.
NextFormat == CallFormatAnswers

SpecFormat == Init /\ [][NextFormat]_vars

\* Requests in flight together, each handler advancing from await to
\* await; a send that is awaited need never settle.
NextAsync ==
    \/ Connect
    \/ ReceiveRequest
    \/ \E i \in 1..Len(calls) : StoreApplies(i)
    \/ \E i \in 1..Len(calls) : StoreRejects(i)
    \/ \E i \in 1..Len(calls) : Resume(i)
    \/ \E i \in 1..Len(calls) : MailSettles(i)
    \/ Forget

SpecAsync == Init /\ [][NextAsync]_vars

\* Updates with any combination of fields, of the records created.
NextUpdate ==
    \/ Connect
    \/ HandleCreate({PlainX}, MaxUpdated)
    \/ HandleUpdate(PathIds(MaxUpdated), UpdateBodies)

SpecUpdate == Init /\ [][NextUpdate]_vars

-----------------------------------------------------------------------------
(* Properties *)

\* The step is the handling of a request of kind op.
Handles(op) == last'.op = op /\ last'.turn # last.turn

\* x, an exchange, was answered once, with this status.
Answered(x, status) ==
    Len(x.responses) = 1 /\ x.responses[1].status = status

Envelope(x) == x.responses[1].body

Matching(s, h) == {d \in s : d._id = Oid(h)}

\* C1: a create whose body carries the record fields (and no identifier of
\* its own) and that answered 201 is followed by a get-by-id of the returned
\* id that answers 200 with a record whose name, email and age are the
\* body's; and the id a create returns is an ObjectId generated for it, later
\* than every ObjectId generated before, so no two creates return the same.
C1_CreateThenGet ==
    [][ /\ ( /\ last.op = "create" /\ Answered(last, 201)
             /\ ~Has(last.body, "_id")
             /\ Handles("get") /\ ~last'.dbFail
             /\ last'.id = Envelope(last).data.id )
           => /\ Answered(last', 200)
              /\ Envelope(last').success
              /\ LET d == Envelope(last').data
                 IN  /\ {"name", "email", "age"} \subseteq DOMAIN d
                     /\ d.name = last.body.name
                     /\ d.email = last.body.email
                     /\ d.age = last.body.age
        /\ ( /\ Handles("create") /\ Answered(last', 201)
             /\ ~Has(last'.body, "_id") )
           => /\ Envelope(last').data.id = IdToString(Oid(nextOid + 1))
              /\ nextOid' = nextOid + 1
              /\ \A d \in store : d._id.t = "oid" => d._id.h <= nextOid
      ]_vars

C1_Witness ==
    /\ last.op = "get" /\ Answered(last, 200)
    /\ Has(Envelope(last).data, "answers")
    /\ nextOid = 2

\* C2: every record's identifier is unique and is an ObjectId the driver
\* generated, and its creation timestamp is a reading of the server's clock,
\* whatever the body of the create request carried; and an update changes
\* neither.
C2_StoreAssigned ==
    [][ /\ \A d \in store' :
              /\ d._id.t = "oid" /\ d._id.h \in 1..nextOid'
              /\ d.createdAt \in 0..now'
              /\ \A e \in store' : e._id = d._id => e = d
        /\ Handles("update")
           => {[id |-> d._id, at |-> d.createdAt] : d \in store'}
                = {[id |-> d._id, at |-> d.createdAt] : d \in store}
      ]_vars

\* C3: an update of an existing record with a body that holds a truthy name
\* and nothing else is answered 200 and sets that record's name, leaving all
\* of its other fields and all other records as they were.
C3_UpdateNameOnly ==
    [][ ( /\ Handles("update") /\ collection /\ ~last'.dbFail
          /\ DOMAIN last'.body = {"name"} /\ TruthyText(last'.body.name)
          /\ Matching(store, last'.id) # {} )
        => /\ Answered(last', 200)
           /\ store' = {IF d._id = Oid(last'.id)
                        THEN [d EXCEPT !.name = last'.body.name]
                        ELSE d : d \in store}
      ]_vars

C3_Witness ==
    /\ last.op = "update" /\ Answered(last, 200)
    /\ DOMAIN last.body = {"name"}
    /\ \E d \in store : d._id = Oid(last.id) /\ d.name = "Y"
    /\ \E d \in store : d._id # Oid(last.id) /\ d.name = "X"

\* C4: deleting an existing record answers 200 with success = true and
\* removes that record alone; deleting it again answers 404 with
\* success = false and leaves the store as the first delete left it.
C4_DeleteTwice ==
    [][ /\ ( /\ Handles("delete") /\ collection /\ ~last'.dbFail
             /\ Matching(store, last'.id) # {} )
           => /\ Answered(last', 200) /\ Envelope(last').success
              /\ store' = store \ Matching(store, last'.id)
        /\ ( /\ last.op = "delete" /\ Answered(last, 200)
             /\ Handles("delete") /\ ~last'.dbFail
             /\ last'.id = last.id )
           => /\ Answered(last', 404) /\ ~Envelope(last').success
              /\ store' = store
      ]_vars

C4_Witness ==
    /\ last.op = "delete" /\ Answered(last, 404)
    /\ last.id \in 1..nextOid
    /\ store # {}

\* C5: a seed request that is answered 201 reports insertedCount = 3, adds
\* exactly 3 records and leaves the records that were there as they were;
\* and a seed request is answered 201 whenever the store is connected and its
\* operation does not fail, whatever the store holds.
C5_SeedAddsThree ==
    [][ /\ (Handles("seed") /\ collection /\ ~last'.dbFail)
           => Answered(last', 201)
        /\ (Handles("seed") /\ Answered(last', 201))
           => /\ Envelope(last').success
              /\ Envelope(last').data.insertedCount = 3
              /\ store \subseteq store'
              /\ Cardinality(store') = Cardinality(store) + 3
      ]_vars

\* Seeded twice, with a created record in between.
C5_Witness ==
    /\ last.op = "seed" /\ Answered(last, 201)
    /\ Cardinality(store) >= 6
    /\ \E d \in store : d.name = "X"

\* C6: get-by-id, update and delete of a well-formed id that matches no
\* record answer 404 with success = false and no data, and leave the store
\* as it was.
C6_NotFound ==
    [][ ( /\ Handles("get") \/ Handles("update") \/ Handles("delete")
          /\ collection /\ ~last'.dbFail
          /\ ~ObjectIdThrows(last'.id)
          /\ Matching(store, last'.id) = {} )
        => /\ Answered(last', 404)
           /\ ~Envelope(last').success
           /\ ~Has(Envelope(last'), "data")
           /\ store' = store
      ]_vars

C6_Witness ==
    /\ last.op = "update" /\ Answered(last, 404)
    /\ Has(last.body, "name") /\ TruthyText(last.body.name)
    /\ store # {}
    /\ last.id \in 1..nextOid

\* C7: while the gateway is not ready, sendEmail returns success = false
\* with the error 'Email service not configured' for every input, throws
\* nothing, hands no mail to a transport and leaves the gateway as it was.
C7_SendWhenNotReady ==
    [][ (Handles("sendEmail") /\ ~isReady)
        => /\ last'.result
                = [success |-> FALSE, error |-> "Email service not configured"]
           /\ ~last'.escaped
           /\ last'.mails = <<>>
           /\ UNCHANGED <<isConfigured, transporter, provisioning>>
      ]_vars

\* sendEmail was called after the provisioning of the test transport failed.
C7_Witness ==
    /\ last.op = "sendEmail" /\ ~last.result.success
    /\ Has(last.body, "message")
    /\ ~isConfigured /\ ~provisioning

\* C8: a create request whose insert succeeded is answered 201 with
\* success = true and the new id, whatever happens in the notification step.
C8_CreatedMeans201 ==
    [][ (Handles("create") /\ store' # store)
        => /\ Answered(last', 201)
           /\ Envelope(last').success
           /\ \E d \in store' \ store :
                 Envelope(last').data.id = IdToString(d._id)
      ]_vars

HandlerOps == {"list", "get", "create", "update", "delete", "seed"}

\* The envelope invariant of the responses a handler of kind op sent.
EnvelopeOk(op, responses) ==
    /\ Len(responses) = 1
    /\ LET status == responses[1].status
           e == responses[1].body
       IN  /\ DOMAIN e \subseteq {"success", "data", "message"}
           /\ Has(e, "success") /\ e.success \in Bool
           /\ ~e.success => ~Has(e, "data")
           /\ e.success <=> status \in {200, 201}
           /\ ~e.success => Has(e, "message")
           /\ (e.success /\ op \in {"create", "update", "delete"})
              => Has(e, "message")

\* C9: the request just handled, and every request that any of the six
\* handlers can be given in the current state, is answered exactly once, with
\* an envelope in which success = false goes without data, and a message
\* comes with every error and with every successful create, update or delete.
C9_Envelope ==
    /\ last.op \in HandlerOps => EnvelopeOk(last.op, last.responses)
    /\ \A dbFail \in Bool :
          /\ EnvelopeOk("list", GetAll(dbFail).responses)
          /\ EnvelopeOk("seed", Seed(dbFail).responses)
          /\ \A id \in PathIds(MaxOid) :
                /\ EnvelopeOk("get", GetById(id, dbFail).responses)
                /\ EnvelopeOk("delete", Delete(id, dbFail).responses)
                /\ \A body \in NameBodies :
                      EnvelopeOk("update", Update(id, body, dbFail).responses)
          /\ \A body \in RichBodies, provider \in Providers :
                EnvelopeOk("create", Create(body, dbFail, provider).responses)

\* A get-by-id of a record that was deleted was answered 404.
C9_Witness ==
    /\ last.op = "get" /\ Answered(last, 404)
    /\ last.id \in 1..nextOid
    /\ store # {}

\* The handler's try block threw (or one of the named causes of an error
\* held): nothing escaped the handler, which answered once, 500 with
\* success = false and its fixed message.
CaughtAs500(cause, try, out, message) ==
    /\ ~out.threw
    /\ (cause => try.threw)
    /\ try.threw
       => out.responses
            = <<Response(500, [success |-> FALSE, message |-> message])>>

\* C10: in every handler an error thrown in the try block -- by
\* getCollection() before connect(), by new ObjectId(id) on a malformed id,
\* by the driver's operation, by formatAnswers -- is caught and answered 500
\* with success = false and the handler's fixed message; none escapes.
C10_ErrorsCaught ==
    /\ last.op \in HandlerOps => ~last.escaped
    /\ \A dbFail \in Bool :
          LET down == getCollectionThrows \/ dbFail
          IN  /\ CaughtAs500(down, GetAllTry(dbFail), GetAll(dbFail),
                             "Failed to fetch data")
              /\ CaughtAs500(down, SeedTry(dbFail), Seed(dbFail),
                             "Failed to seed data")
              /\ \A id \in PathIds(MaxOid) :
                    LET bad == down \/ ObjectIdThrows(id)
                    IN  /\ CaughtAs500(bad, GetByIdTry(id, dbFail),
                                       GetById(id, dbFail),
                                       "Failed to fetch data")
                        /\ CaughtAs500(bad, DeleteTry(id, dbFail),
                                       Delete(id, dbFail),
                                       "Failed to delete data")
                        /\ \A body \in NameBodies :
                              CaughtAs500(bad, UpdateTry(id, body, dbFail),
                                          Update(id, body, dbFail),
                                          "Failed to update data")
              /\ \A body \in RichBodies, provider \in Providers :
                    CaughtAs500(down \/ formatAnswers(AnswersOrEmpty(body)).threw,
                                CreateTry(body, dbFail, provider),
                                Create(body, dbFail, provider),
                                "Failed to create data")

\* A delete of a malformed id was answered 500 by a connected store.
C10_Witness ==
    /\ last.op = "delete" /\ last.id = 0 /\ Answered(last, 500)
    /\ collection /\ store # {}

\* The parts of an array value, separated by a comma and a space.
CommaSeparated(ps) ==
    LET upTo[i \in 0..Len(ps)] ==
            IF i = 0 THEN ""
            ELSE IF i = 1 THEN ps[1]
            ELSE upTo[i - 1] \o ", " \o ps[i]
    IN  upTo[Len(ps)]

\* The pairs that have both a label and a value, in input order.
Surviving(items) ==
    SelectSeq(items, LAMBDA p : p.label # "" /\ p.value # Scalar(""))

\* One list line for each of these pairs, one after the other.
LinesOf(pairs) ==
    LET upTo[i \in 0..Len(pairs)] ==
            IF i = 0 THEN ""
            ELSE upTo[i - 1]
                 \o "<li> <span style=\"font-weight: bold\"> " \o pairs[i].label
                 \o " </span>  :  <i> "
                 \o (IF pairs[i].value.arr
                     THEN CommaSeparated(pairs[i].value.parts)
                     ELSE pairs[i].value.parts[1])
                 \o " </i> </li>  <br />"
    IN  upTo[Len(pairs)]

IsPairs(answers) ==
    answers.k = "array" /\ \A i \in 1..Len(answers.items) : ~answers.items[i].isNull

\* C11: formatAnswers applied to a sequence of {label, value} pairs returns
\* the greeting, then one list line for each pair that has both a label and
\* a value, in input order and with an array value joined by ", ", then the
\* sign-off; a pair without label or without value adds no line.
C11_FormatAnswers ==
    (last.op = "formatAnswers" /\ IsPairs(last.body))
        => /\ ~last.result.threw
           /\ last.result.message
                 = Greeting \o LinesOf(Surviving(last.body.items)) \o SignOff

\* The example of the specification: lines for A and D, none for the pair
\* without label.
C11_Witness ==
    /\ last.op = "formatAnswers"
    /\ last.body = GoodAnswers
    /\ last.result.message
         = Greeting
           \o "<li> <span style=\"font-weight: bold\"> A </span>  :  <i> b </i> </li>  <br />"
           \o "<li> <span style=\"font-weight: bold\"> D </span>  :  <i> e, f </i> </li>  <br />"
           \o SignOff

\* C12: on create, once the insert has succeeded the 201 response is sent
\* without waiting for the gateway's send to complete: no create handler is
\* awaiting sendEmail with its response still unsent (were there one, a send
\* that never settles would keep the response from ever being sent).
C12_RespondsBeforeSend ==
    \A i \in 1..Len(calls) :
        (calls[i].op = "create" /\ calls[i].pc = "mail")
            => calls[i].responses # <<>>

\* The gateway is Ready when isConfigured, Configuring while the test
\* account is being provisioned, Unconfigured otherwise.
Readiness(configured, pending) ==
    IF configured THEN "Ready"
    ELSE IF pending THEN "Configuring" ELSE "Unconfigured"

\* C13: the gateway's readiness moves only from Configuring to Ready or to
\* Unconfigured: constructed with host, user and pass it is Ready at once
\* (transport "smtp"); otherwise it is not ready while the test account is
\* provisioned, Ready with the test transport when that succeeds, and
\* Unconfigured for good when it fails; Ready is never left; and isReady()
\* holds exactly when a transport is bound.
C13_Readiness ==
    [][ LET before == Readiness(isConfigured, provisioning)
            after == Readiness(isConfigured', provisioning')
        IN  /\ isReady <=> transporter # "none"
            /\ isConfigured' <=> transporter' # "none"
            /\ transporter = "smtp" => before = "Ready"
            /\ ~(isConfigured /\ provisioning)
            /\ ~(isConfigured' /\ provisioning')
            /\ before = "Ready" => (after = "Ready" /\ transporter' = transporter)
            /\ before = "Unconfigured" => after = "Unconfigured"
            /\ (before = "Configuring" /\ after = "Ready") => transporter' = "test"
      ]_vars

\* The test account was provisioned and the gateway has become Ready.
C13_Witness == isReady /\ transporter = "test" /\ ~provisioning

\* The value of field f of record d after an update with this body: the
\* body's, when it gives a non-empty name or email or an age that is not the
\* number 0 (the age as an integer), and the record's own otherwise.
AfterUpdate(d, body, f) ==
    IF f \in {"name", "email"} /\ Has(body, f) /\ body[f] # ""
    THEN body[f]
    ELSE IF f = "age" /\ Has(body, "age") /\ body.age # Num(0)
    THEN Num(body.age.v)
    ELSE d[f]

\* C14: an update of an id that matches a record, the store answering,
\* is answered 200 with success = true and changes of that record exactly
\* the fields among name, email and age that the body gives with a truthy
\* value; a field given as "" or as the number 0 is dropped, and when all
\* are dropped the record stays as it was; no other record changes.
C14_UpdateTruthyFields ==
    [][ (Handles("update") /\ collection /\ ~last'.dbFail
            /\ Matching(store, last'.id) # {})
        => /\ Answered(last', 200)
           /\ Envelope(last').success
           /\ Cardinality(store') = Cardinality(store)
           /\ \A d \in store :
                 IF d._id = Oid(last'.id)
                 THEN \E e \in store' :
                        /\ DOMAIN e = DOMAIN d
                        /\ e._id = d._id
                        /\ e.createdAt = d.createdAt
                        /\ \A f \in {"name", "email", "age"} :
                              e[f] = AfterUpdate(d, last'.body, f)
                 ELSE d \in store'
      ]_vars

\* An update that gives only falsy values was answered 200 and the record
\* is as it was created.
C14_Witness ==
    /\ last.op = "update"
    /\ last.body = [name |-> "", email |-> "", age |-> Num(0)]
    /\ Answered(last, 200)
    /\ \E d \in Matching(store, last.id) :
          d.name = "X" /\ d.email = "x@example.com" /\ d.age = Num(7)

Done(c, status) == c.pc = "done" /\ Answered(c, status)

\* Call k applied a write (update or delete) to the id of call c, later
\* than position p and earlier than position q.
WroteBetween(k, c, p, q) ==
    /\ calls[k].op \in {"update", "delete"}
    /\ calls[k].id = c.id
    /\ p < calls[k].at /\ calls[k].at < q

\* C15: the get, update and delete handlers apply one store operation
\* each, and whatever the interleaving each answers what it would answer,
\* and the store is what it would be, were the handlers run one after the
\* other in the order of their store operations.  Of two updates of a
\* record both are answered 200 and the record has the name of the one
\* applied later; of an update and a delete of a record the delete is
\* answered 200, the update 200 when it was applied first and 404 when it
\* was applied second, and the record is gone.
C15_SerialOrder ==
    /\ \A i \in 1..Len(calls) :
          LET c == calls[i]
          IN  (c.op # "create" /\ c.at > 0)
                  => /\ c.pc = "done" => c.responses = c.serial
                     /\ c.at = Applied => store = c.serialStore
    /\ \A i, j \in 1..Len(calls) :
          LET u == calls[i]
              v == calls[j]
          IN  (/\ u.op = "update" /\ v.op = "update" /\ u.id = v.id
               /\ u.pc = "done" /\ v.pc = "done"
               /\ 0 < u.at /\ u.at < v.at /\ u.n = 1
               /\ \A k \in 1..Len(calls) :
                     ~(calls[k].op = "delete" /\ WroteBetween(k, u, u.at, v.at)))
              => /\ Done(u, 200) /\ Done(v, 200)
                 /\ (\A k \in 1..Len(calls) :
                        ~WroteBetween(k, v, v.at, Applied + 1))
                      => /\ Matching(store, v.id) # {}
                         /\ \A d \in Matching(store, v.id) :
                               d.name = v.body.name
    /\ \A i, j \in 1..Len(calls) :
          LET u == calls[i]
              v == calls[j]
              first == IF u.at < v.at THEN u ELSE v
          IN  (/\ u.op = "update" /\ v.op = "delete" /\ u.id = v.id
               /\ u.pc = "done" /\ v.pc = "done"
               /\ 0 < u.at /\ 0 < v.at /\ first.n = 1
               /\ \A k \in 1..Len(calls) :
                     ~(calls[k].op = "delete" /\ WroteBetween(k, v, first.at, v.at)))
              => /\ Done(v, 200)
                 /\ u.at < v.at => Done(u, 200)
                 /\ u.at > v.at => Done(u, 404)
                 /\ Matching(store, v.id) = {}

\* An update received ahead of a delete of the same record and applied
\* after it: the delete was answered 200, the update 404.
C15_Witness ==
    \E i, j \in 1..Len(calls) :
        /\ i < j
        /\ calls[i].op = "update" /\ calls[j].op = "delete"
        /\ calls[i].id = calls[j].id
        /\ 0 < calls[j].at /\ calls[j].at < calls[i].at
        /\ Done(calls[j], 200) /\ Done(calls[i], 404)

=============================================================================
